---- MODULE Spec2Model ----
(***************************************************************************)
(* Threshold-crossing alert engine of Pegelabfrage.py (check_once): one    *)
(* poll cycle fetches the feed once, then for every configured station     *)
(* inserts the measurement and walks the per-threshold arm/rearm state     *)
(* machine kept in the sqlite table `state`, and commits at the end.       *)
(*                                                                         *)
(* Time is counted in whole units; one cycle is started per unit of wall   *)
(* clock.  Water levels and thresholds are small integers (only their      *)
(* order matters to the code).                                             *)
(***************************************************************************)
EXTENDS Integers, Sequences, FiniteSets, TLC

\* ---------------------------------------------------------------- bounds
MaxTime == 4      \* wall-clock horizon with one station: cycles at now = 1..MaxTime
MaxTimeMulti == 1 \* wall-clock horizon with several stations
MaxCrashes == 1   \* process stops explored per run (SpecCrash)
MaxValue == 3     \* measured values are 0..MaxValue
MaxThreshold == 4 \* thresholds handed to _compute_level on its own are 1..MaxThreshold
MaxLevels == 3    \* and the threshold lists have 1..MaxLevels entries
MaxRaw == 4       \* configured threshold values are 0..MaxRaw
MaxRawLen == 4    \* a configured thresholds_cm list has 0..MaxRawLen values

\* ------------------------------------------------------- configuration
\* The configurations explored (settings.stations, fixed at load time).
\* load_settings gives a station three or four ascending thresholds, or one
\* (legacy threshold_cm): one station with three thresholds, or two stations
\* with one threshold each.
Configs ==
  { << [thresholds_cm |-> <<1, 2, 3>>] >>,
    << [thresholds_cm |-> <<1>>], [thresholds_cm |-> <<2>>] >> }

VARIABLE stations   \* settings.stations

StationIds == 1..Len(stations)

thresholds_cm(s) == stations[s].thresholds_cm

ThIdx(s) == 1..Len(thresholds_cm(s))

\* settings.rearm_below_hours, in time units
rearm_below_hours == 2

\* --------------------------------------------- values of the state table
\* db_get_state returns None when the key has no row
NoRow == -1
\* the empty string "" written to below_since:* keys
EmptyStr == -2
\* the strings "0" and "1" written to armed:* keys
Str0 == 0
Str1 == 1

\* Timestamps are stored as text, datetime.isoformat(): an instant t read from
\* a feed timestamp that carries a UTC offset is written t, the same instant
\* read from a timestamp without offset (a naive datetime) NaiveMark + t.
NaiveMark == 100

IsNaive(x) == x >= NaiveMark

Instant(x) == IF IsNaive(x) THEN x - NaiveMark ELSE x

\* keys of the state table
key_armed(s, i) == <<"armed", s, i>>
key_below_since(s, i) == <<"below_since", s, i>>
key_last_level(s) == <<"last_level", s, 0>>

\* the (station, threshold index) pairs of the configuration
Thresholds == {p \in StationIds \X (1..3) : p[2] \in ThIdx(p[1])}

StateKeys ==
  {key_armed(p[1], p[2]) : p \in Thresholds}
  \cup {key_below_since(p[1], p[2]) : p \in Thresholds}
  \cup {key_last_level(s) : s \in StationIds}

\* a freshly initialised database (init_db): both tables empty
EmptyDb == [state |-> [k \in StateKeys |-> NoRow], measurements |-> {}]

VARIABLES
  now,            \* wall clock of the current / last cycle
  pc,             \* position inside check_once: idle, station, threshold, last_level, commit
  st,             \* index of the station being evaluated
  th,             \* index of the threshold being walked
  index_map,      \* the feed snapshot of the cycle: station -> entry
  con,            \* the database as seen through the open connection
  disk,           \* the committed database
  any_fail,       \* check_once's any_fail
  alert_on_start, \* settings.alert_on_start
  email_ok,       \* _email_config_ok(settings)
  sends,          \* send_email calls of the current cycle, in order
  crashes,        \* number of times the process was stopped inside a cycle
  hist,           \* history, per (station, threshold index)
  scen,           \* history, per station: progress along the start-up scenario
  call,           \* a helper function applied on its own: arguments and result
  settings,       \* the [runtime] settings left over from the earlier alert policies
  legacy          \* the single-threshold scripts (Multi_Pegel.py, pegel_alarm.py)

vars == <<legacy, settings, call, stations, now, pc, st, th, index_map, con, disk, any_fail, alert_on_start, email_ok, sends, crashes, hist, scen>>

\* the horizon of the configuration
Horizon == IF Len(stations) = 1 THEN MaxTime ELSE MaxTimeMulti

\* ------------------------------------------------------------ the feed
MissEntry == [kind |-> "miss", ts |-> 0, val |-> 0, naive |-> FALSE]
BadEntry == [kind |-> "bad", ts |-> 0, val |-> 0, naive |-> FALSE]

\* entries the feed can hold for a station at wall-clock time t: none, one
\* whose timestamp/value does not parse, or a measurement stamped t or t-1
\* (the feed may lag behind the poll).
FeedEntries(t) ==
  {MissEntry, BadEntry}
  \cup {[kind |-> "ok", ts |-> u, val |-> v, naive |-> FALSE] : u \in {t - 1, t}, v \in 0..MaxValue}

\* measurements whose timestamp carries no UTC offset
FeedEntriesNaive(t) ==
  {[kind |-> "ok", ts |-> u, val |-> v, naive |-> TRUE] : u \in {t - 1, t}, v \in 0..MaxValue}

NoFeed == [s \in StationIds |-> MissEntry]

\* ------------------------------------------------------ pure functions
\* _to_dt applied to a stored below_since string
_to_dt(x) == IF x = NoRow \/ x = EmptyStr THEN NoRow ELSE x

\* truthiness of a stored string (`if below_since_str:`)
Truthy(x) == x # NoRow /\ x # EmptyStr

RECURSIVE LevelFrom(_, _, _)
LevelFrom(value, ths, k) ==
  IF k > Len(ths) THEN 0
  ELSE IF value >= ths[k] THEN 1 + LevelFrom(value, ths, k + 1)
  ELSE 0

\* _compute_level with a strict comparison
_compute_level_Strict(value, ths) == LevelFrom(value - 1, ths, 1)

\* _compute_level: count thresholds reached, stopping at the first one missed
_compute_level(value, ths) == LevelFrom(value, ths, 1)

db_get_state(db, key) == db.state[key]

db_set_state(db, key, value) == [db EXCEPT !.state[key] = value]

\* every stored value read as armed
ParseArmed_AlwaysArmed(armed_str) == TRUE

\* armed as parsed from armed_str (default True)
ParseArmed(armed_str) ==
  IF armed_str # NoRow THEN armed_str = Str1 ELSE TRUE

\* a plain INSERT into a table without primary key
InsertOrIgnore_Duplicate(db, s, ts, value, level) ==
  [db EXCEPT !.measurements = @ \cup {[station |-> s, ts |-> ts, value |-> value, level |-> level]}]

\* INSERT OR IGNORE INTO measurements, primary key (station_no, parameter, ts)
InsertOrIgnore(db, s, ts, value, level) ==
  IF \E r \in db.measurements : r.station = s /\ r.ts = ts
  THEN db
  ELSE [db EXCEPT !.measurements = @ \cup {[station |-> s, ts |-> ts, value |-> value, level |-> level]}]

\* The code only ever inserts into measurements and never reads it back, and
\* the feed of the cycle at time t delivers timestamps t-1 and t only: once
\* the cycle at time t is over, rows stamped before t can never be addressed
\* by an insert again.  The model keeps the rows that can.
LiveRows(db, t) ==
  [db EXCEPT !.measurements = {r \in @ : Instant(r.ts) >= t}]

\* ----------------------------------------------------- history variables
\* What has been observed and delivered, per threshold and per station.
\* They are written by the actions and read by the properties only.
AllTh == (1..2) \X (1..3)

Hist0 ==
  [ everAbove |-> FALSE,  \* a reading at or above the threshold was evaluated
    lowStart |-> NoRow,   \* timestamp of the first reading of the running below streak
    lowLast |-> NoRow,    \* timestamp of its latest reading
    hiLen |-> 0,          \* cycles of the running at-or-above streak (2 = two or more)
    armed0 |-> FALSE,     \* Eligible when that streak began
    delivered |-> 0,      \* mails delivered during that streak (2 = two or more)
    first |-> FALSE,      \* a mail was delivered in its first cycle
    failed |-> FALSE,     \* a send raised during that streak
    longLow |-> FALSE,    \* some below streak has spanned rearm_below_hours
    total |-> 0 ]         \* mails delivered before any such streak (2 = two or more)

Sat2(n) == IF n >= 2 THEN 2 ELSE n

ObserveBelow(h, dt) ==
  [h EXCEPT !.lowStart = IF @ = NoRow THEN dt ELSE @,
            !.lowLast = dt,
            !.longLow = @ \/ (h.lowStart # NoRow /\ dt - h.lowStart >= rearm_below_hours),
            !.hiLen = 0, !.armed0 = FALSE, !.delivered = 0,
            !.first = FALSE, !.failed = FALSE]

\* outcome: "none" (no send), "ok", "fail"
ObserveAbove(h, eligible, outcome) ==
  [h EXCEPT !.everAbove = TRUE,
            !.lowStart = NoRow,
            !.lowLast = NoRow,
            !.hiLen = Sat2(@ + 1),
            !.armed0 = IF h.hiLen = 0 THEN eligible ELSE @,
            !.delivered = IF outcome = "ok" THEN Sat2(@ + 1) ELSE @,
            !.first = IF outcome = "ok" /\ h.hiLen = 0 THEN TRUE ELSE @,
            !.failed = @ \/ outcome = "fail",
            !.total = IF outcome = "ok" /\ ~h.longLow THEN Sat2(@ + 1) ELSE @]

\* phases of the start-up scenario of a station (followed only with
\* alert_on_start = false): 0 never evaluated; 1 first evaluation was at or
\* above every threshold; 2 so were all evaluations since; 3 after that only
\* readings below every threshold, the first stamped t0, the latest tl;
\* 4 then a reading at or above every threshold; 5 anything else.
Scen0 == [ph |-> 0, t0 |-> 0, tl |-> 0]

ScenPh(n) == [ph |-> n, t0 |-> 0, tl |-> 0]

ScenStep(c, level, n, dt) ==
  IF alert_on_start THEN ScenPh(5)
  ELSE IF c.ph = 0 THEN (IF level = n THEN ScenPh(1) ELSE ScenPh(5))
  ELSE IF c.ph \in {1, 2}
       THEN (IF level = n THEN ScenPh(2)
             ELSE IF level = 0 THEN [ph |-> 3, t0 |-> dt, tl |-> dt]
             ELSE ScenPh(5))
  ELSE IF c.ph = 3
       THEN (IF level = 0 THEN [c EXCEPT !.tl = dt]
             ELSE IF level = n THEN ScenPh(4)
             ELSE ScenPh(5))
  ELSE ScenPh(5)

\* no helper function applied on its own
NoCall == [fn |-> "none"]

\* settings.alert_on_level_increase and settings.min_alert_interval_minutes
\* as load_settings yields them when the [runtime] section names neither
DefaultSettings ==
  [alert_on_level_increase |-> TRUE, min_alert_interval_minutes |-> 180]

\* the settings explored: mailing on a level increase on or off, no rate
\* limit or the default one
SettingsSet ==
  [alert_on_level_increase : BOOLEAN, min_alert_interval_minutes : {0, 180}]

\* the single-threshold scripts not running
NoLegacy == [variant |-> "none"]

\* ------------------------------------------------------------------ Init
Init ==
  /\ stations \in Configs
  /\ now = 0
  /\ pc = "idle"
  /\ st = 0
  /\ th = 0
  /\ index_map = NoFeed
  /\ con = EmptyDb
  /\ disk = EmptyDb
  /\ any_fail = FALSE
  /\ alert_on_start \in BOOLEAN
  /\ email_ok \in BOOLEAN
  /\ sends = <<>>
  /\ crashes = 0
  /\ hist = [p \in AllTh |-> Hist0]
  /\ scen = [s \in 1..2 |-> Scen0]
  /\ call = NoCall
  /\ settings = DefaultSettings
  /\ legacy = NoLegacy

\* ------------------------------------------------------------ check_once
\* the reading of the station under evaluation
Cur == index_map[st]

\* check_once entry: init_db, fetch_index succeeds, build_index_map, now
FetchIndex ==
  /\ pc = "idle"
  /\ now < Horizon
  /\ now' = now + 1
  /\ index_map' \in [StationIds -> FeedEntries(now + 1)]
  /\ pc' = "station"
  /\ st' = 1
  /\ th' = 0
  /\ any_fail' = FALSE
  /\ sends' = <<>>
  /\ con' = LiveRows(con, now)
  /\ disk' = LiveRows(disk, now)
  /\ UNCHANGED <<legacy, settings, call, stations, crashes, alert_on_start, email_ok, hist, scen>>

\* a cycle whose feed carries timestamps without UTC offset
FetchIndexNaive ==
  /\ pc = "idle"
  /\ now < Horizon
  /\ now' = now + 1
  /\ index_map' \in [StationIds -> FeedEntriesNaive(now + 1)]
  /\ pc' = "station"
  /\ st' = 1
  /\ th' = 0
  /\ any_fail' = FALSE
  /\ sends' = <<>>
  /\ con' = LiveRows(con, now)
  /\ disk' = LiveRows(disk, now)
  /\ UNCHANGED <<legacy, settings, call, stations, crashes, alert_on_start, email_ok, hist, scen>>

\* fetch_index raises and nothing catches the exception: the process ends
FetchIndexFails_EndsProcess ==
  /\ pc = "idle"
  /\ now < Horizon
  /\ now' = now + 1
  /\ sends' = <<>>
  /\ pc' = "ended"
  /\ UNCHANGED <<legacy, settings, call, stations, crashes, st, th, index_map, con, disk, any_fail, alert_on_start, email_ok, hist, scen>>

\* fetch_index raises after the database was set up anew
FetchIndexFails_ResetsDb ==
  /\ pc = "idle"
  /\ now < Horizon
  /\ now' = now + 1
  /\ sends' = <<>>
  /\ con' = EmptyDb
  /\ disk' = EmptyDb
  /\ UNCHANGED <<legacy, settings, call, stations, crashes, pc, st, th, index_map, any_fail, alert_on_start, email_ok, hist, scen>>

\* fetch_index raises (unreachable feed, HTTP error, payload not a list):
\* check_once raises before the database is touched
FetchIndexFails ==
  /\ pc = "idle"
  /\ now < Horizon
  /\ now' = now + 1
  /\ sends' = <<>>
  /\ UNCHANGED <<legacy, settings, call, stations, crashes, pc, st, th, index_map, con, disk, any_fail, alert_on_start, email_ok, hist, scen>>

\* the station loop fetching the feed anew before every station
NextStation_Refetch ==
  /\ index_map' \in [StationIds -> FeedEntries(now)]
  /\ IF st < Len(stations)
     THEN pc' = "station" /\ st' = st + 1 /\ th' = 0
     ELSE pc' = "commit" /\ st' = 0 /\ th' = 0

\* position after the body of the station loop; the entry of the station
\* just handled is never looked up again in this cycle
NextStation ==
  /\ index_map' = [index_map EXCEPT ![st] = MissEntry]
  /\ IF st < Len(stations)
     THEN pc' = "station" /\ st' = st + 1 /\ th' = 0
     ELSE pc' = "commit" /\ st' = 0 /\ th' = 0

\* latest_for_station raises and the exception ends the station loop
StationFails_AbortsCycle ==
  /\ pc = "station"
  /\ Cur.kind # "ok"
  /\ any_fail' = TRUE
  /\ index_map' = NoFeed
  /\ pc' = "commit" /\ st' = 0 /\ th' = 0
  /\ UNCHANGED <<legacy, settings, call, stations, crashes, now, con, disk, alert_on_start, email_ok, sends, hist, scen>>

\* latest_for_station raises: except-branch of the station loop
StationFails ==
  /\ pc = "station"
  /\ Cur.kind # "ok"
  /\ any_fail' = TRUE
  /\ NextStation
  /\ UNCHANGED <<legacy, settings, call, stations, crashes, now, con, disk, alert_on_start, email_ok, sends, hist, scen>>

\* ts_iso as returned by latest_for_station: dt.isoformat()
ts_iso == IF Cur.naive THEN NaiveMark + Cur.ts ELSE Cur.ts

\* latest_for_station returns, level computed, measurement inserted
StationInsert ==
  /\ pc = "station"
  /\ Cur.kind = "ok"
  /\ con' = InsertOrIgnore(con, st, ts_iso, Cur.val, _compute_level(Cur.val, thresholds_cm(st)))
  /\ pc' = "threshold"
  /\ th' = 1
  /\ UNCHANGED <<legacy, settings, call, stations, crashes, now, st, index_map, disk, any_fail, alert_on_start, email_ok, sends, hist, scen>>

\* state of threshold (s, i) as loaded at the top of the loop body
armed_str(db, s, i) == db_get_state(db, key_armed(s, i))

below_since_str(db, s, i) == db_get_state(db, key_below_since(s, i))

\* every threshold taken as armed
IsArmed_Always(db, s, i) == TRUE

\* armed, or the level has risen above the stored last_level and mailing on
\* a level increase is switched on
IsArmed_OrLevelIncrease(db, s, i) ==
  \/ ParseArmed(armed_str(db, s, i))
  \/ /\ settings.alert_on_level_increase
     /\ db_get_state(db, key_last_level(s)) # NoRow
     /\ _compute_level(index_map[s].val, thresholds_cm(s)) > db_get_state(db, key_last_level(s))

IsArmed(db, s, i) == ParseArmed(armed_str(db, s, i))

below_since_dt(db, s, i) ==
  IF Truthy(below_since_str(db, s, i)) THEN _to_dt(below_since_str(db, s, i)) ELSE NoRow

\* position after one iteration of the threshold loop
NextThreshold ==
  IF th < Len(thresholds_cm(st))
  THEN pc' = "threshold" /\ th' = th + 1
  ELSE pc' = "last_level" /\ th' = 0

\* the rearm test without the waiting time
RearmDue_NoWait(dt, since) == dt - since >= 0

\* the rearm test with a strict comparison
RearmDue_Strict(dt, since) == dt - since > rearm_below_hours

\* the rearm test with half the waiting time
RearmDue_HalfWait(dt, since) == 2 * (dt - since) >= rearm_below_hours

\* the rearm test measured against the wall clock of the cycle
RearmDue_WallClock(dt, since) == now - since >= rearm_below_hours

\* the rearm test of line 722
RearmDue(dt, since) == dt - since >= rearm_below_hours

\* value < th, with the below timer never started
BelowEffect_NoTimer(db, s, i, dt) ==
  IF ~IsArmed(db, s, i)
  THEN db
  ELSE IF Truthy(below_since_str(db, s, i))
       THEN db_set_state(db, key_below_since(s, i), EmptyStr)
       ELSE db

\* value < th, with the below timer started for an armed threshold as well
BelowEffect_TimerWhenArmed(db, s, i, dt) ==
  IF below_since_dt(db, s, i) = NoRow
  THEN db_set_state(db, key_below_since(s, i), dt)
  ELSE IF ~IsArmed(db, s, i) /\ RearmDue(dt, below_since_dt(db, s, i))
       THEN db_set_state(db_set_state(db, key_armed(s, i), Str1), key_below_since(s, i), EmptyStr)
       ELSE db

\* value < th, with the first below reading re-arming at once
BelowEffect_FirstRearms(db, s, i, dt) ==
  IF ~IsArmed(db, s, i)
  THEN IF below_since_dt(db, s, i) = NoRow \/ RearmDue(dt, below_since_dt(db, s, i))
       THEN db_set_state(db_set_state(db, key_armed(s, i), Str1), key_below_since(s, i), EmptyStr)
       ELSE db
  ELSE IF Truthy(below_since_str(db, s, i))
       THEN db_set_state(db, key_below_since(s, i), EmptyStr)
       ELSE db

\* value < th: start the below timer, re-arm, or tidy up
BelowEffect(db, s, i, dt) ==
  IF ~IsArmed(db, s, i)
  THEN IF below_since_dt(db, s, i) = NoRow
       THEN db_set_state(db, key_below_since(s, i), dt)
       ELSE IF RearmDue(dt, below_since_dt(db, s, i))
            THEN db_set_state(db_set_state(db, key_armed(s, i), Str1), key_below_since(s, i), EmptyStr)
            ELSE db
  ELSE IF Truthy(below_since_str(db, s, i))
       THEN db_set_state(db, key_below_since(s, i), EmptyStr)
       ELSE db

\* value >= th, with below_since left as it is
ClearBelow_Keep(db, s, i) == db

\* value >= th: the below streak is broken
ClearBelow(db, s, i) ==
  IF Truthy(below_since_str(db, s, i))
  THEN db_set_state(db, key_below_since(s, i), EmptyStr)
  ELSE db

\* the suppression test without the never-persisted condition met
Suppressed_Never(db, s, i) == FALSE

\* the suppression test with the first run told by the absence of last_level
Suppressed_ByLastLevel(db, s, i) ==
  db_get_state(db, key_last_level(s)) = NoRow /\ ~alert_on_start

\* first-run suppression test of line 740
Suppressed(db, s, i) == armed_str(db, s, i) = NoRow /\ ~alert_on_start

\* first-run suppression with nothing written to armed
SuppressEffect_NoWrite(db, s, i) == ClearBelow(db, s, i)

\* first-run suppression: disarm without a mail
SuppressEffect(db, s, i) == db_set_state(ClearBelow(db, s, i), key_armed(s, i), Str0)

\* send_email returned, armed left as it was
SendOkEffect_NoDisarm(db, s, i) == ClearBelow(db, s, i)

\* send_email returned, one armed flag for the whole station
SendOkEffect_StationWide(db, s, i) ==
  [ClearBelow(db, s, i) EXCEPT !.state =
     [k \in StateKeys |-> IF k[1] = "armed" /\ k[2] = s THEN Str0 ELSE @[k]]]

\* send_email returned: disarm
SendOkEffect(db, s, i) == db_set_state(ClearBelow(db, s, i), key_armed(s, i), Str0)

\* send_email raised, the threshold disarmed all the same
SendFailsEffect_Disarm(db, s, i) == db_set_state(ClearBelow(db, s, i), key_armed(s, i), Str0)

\* send_email raised: armed is not written
SendFailsEffect(db, s, i) == ClearBelow(db, s, i)

\* armed and not subject to first-run suppression: the threshold fires on a
\* reading at or above it
Eligible(db, s, i) == IsArmed(db, s, i) /\ ~Suppressed(db, s, i)

\* ------------------------------------------------- the threshold loop body
Value == Cur.val
Dt == Cur.ts
Th == thresholds_cm(st)[th]

\* dt - below_since_dt of line 722 raises TypeError: one of the two datetimes
\* is naive and the other is not
SubtractRaises ==
  /\ ~IsArmed(con, st, th)
  /\ below_since_dt(con, st, th) # NoRow
  /\ IsNaive(below_since_dt(con, st, th)) # Cur.naive

\* the stored armed flag and below_since of threshold (s, i)
Own(db, s, i) == <<db.state[key_armed(s, i)], db.state[key_below_since(s, i)]>>

\* what one pass of the loop body (lines 703-769) can make of the threshold
\* under evaluation when it finds the state table db: the new armed flag and
\* below_since, and whether send_email was called and returned
Outcomes(db) ==
  IF Value < Th
  THEN {<<Own(BelowEffect(db, st, th, ts_iso), st, th), "none">>}
  ELSE IF ~IsArmed(db, st, th)
  THEN {<<Own(ClearBelow(db, st, th), st, th), "none">>}
  ELSE IF Suppressed(db, st, th)
  THEN {<<Own(SuppressEffect(db, st, th), st, th), "none">>}
  ELSE IF ~email_ok
  THEN {<<Own(ClearBelow(db, st, th), st, th), "none">>}
  ELSE {<<Own(SendOkEffect(db, st, th), st, th), "ok">>,
        <<Own(SendFailsEffect(db, st, th), st, th), "fail">>}

ThresholdBelow ==
  /\ pc = "threshold"
  /\ Value < Th
  /\ ~SubtractRaises
  /\ con' = BelowEffect(con, st, th, ts_iso)
  /\ NextThreshold
  /\ hist' = [hist EXCEPT ![<<st, th>>] = ObserveBelow(@, Dt)]
  /\ UNCHANGED <<legacy, settings, call, stations, crashes, now, st, index_map, disk, any_fail, alert_on_start, email_ok, sends, scen>>

\* value < th and the subtraction raises: except-branch of the station loop,
\* with what the station has written so far left in the transaction
ThresholdBelowRaises ==
  /\ pc = "threshold"
  /\ Value < Th
  /\ SubtractRaises
  /\ any_fail' = TRUE
  /\ NextStation
  /\ UNCHANGED <<legacy, settings, call, stations, crashes, now, con, disk, alert_on_start, email_ok, sends, hist, scen>>

ThresholdNotArmed ==
  /\ pc = "threshold"
  /\ Value >= Th
  /\ ~IsArmed(con, st, th)
  /\ con' = ClearBelow(con, st, th)
  /\ NextThreshold
  /\ hist' = [hist EXCEPT ![<<st, th>>] = ObserveAbove(@, FALSE, "none")]
  /\ UNCHANGED <<legacy, settings, call, stations, crashes, now, st, index_map, disk, any_fail, alert_on_start, email_ok, sends, scen>>

ThresholdSuppressed ==
  /\ pc = "threshold"
  /\ Value >= Th
  /\ IsArmed(con, st, th)
  /\ Suppressed(con, st, th)
  /\ con' = SuppressEffect(con, st, th)
  /\ NextThreshold
  /\ hist' = [hist EXCEPT ![<<st, th>>] = ObserveAbove(@, FALSE, "none")]
  /\ UNCHANGED <<legacy, settings, call, stations, crashes, now, st, index_map, disk, any_fail, alert_on_start, email_ok, sends, scen>>

\* e-mail configuration incomplete and the threshold disarmed all the same
ThresholdNoEmail_Disarms ==
  /\ pc = "threshold"
  /\ Value >= Th
  /\ IsArmed(con, st, th)
  /\ ~Suppressed(con, st, th)
  /\ ~email_ok
  /\ con' = db_set_state(ClearBelow(con, st, th), key_armed(st, th), Str0)
  /\ NextThreshold
  /\ hist' = [hist EXCEPT ![<<st, th>>] = ObserveAbove(@, TRUE, "none")]
  /\ UNCHANGED <<legacy, settings, call, stations, crashes, now, st, index_map, disk, any_fail, alert_on_start, email_ok, sends, scen>>

ThresholdNoEmail ==
  /\ pc = "threshold"
  /\ Value >= Th
  /\ IsArmed(con, st, th)
  /\ ~Suppressed(con, st, th)
  /\ ~email_ok
  /\ con' = ClearBelow(con, st, th)
  /\ NextThreshold
  /\ hist' = [hist EXCEPT ![<<st, th>>] = ObserveAbove(@, TRUE, "none")]
  /\ UNCHANGED <<legacy, settings, call, stations, crashes, now, st, index_map, disk, any_fail, alert_on_start, email_ok, sends, scen>>

\* send_email returns
ThresholdSendOk ==
  /\ pc = "threshold"
  /\ Value >= Th
  /\ IsArmed(con, st, th)
  /\ ~Suppressed(con, st, th)
  /\ email_ok
  /\ sends' = Append(sends, [station |-> st, idx |-> th, ok |-> TRUE])
  /\ con' = SendOkEffect(con, st, th)
  /\ NextThreshold
  /\ hist' = [hist EXCEPT ![<<st, th>>] = ObserveAbove(@, TRUE, "ok")]
  /\ UNCHANGED <<legacy, settings, call, stations, crashes, now, st, index_map, disk, any_fail, alert_on_start, email_ok, scen>>

\* send_email raises and the exception reaches the handler of the station loop
ThresholdSendFails_Aborts ==
  /\ pc = "threshold"
  /\ Value >= Th
  /\ IsArmed(con, st, th)
  /\ ~Suppressed(con, st, th)
  /\ email_ok
  /\ sends' = Append(sends, [station |-> st, idx |-> th, ok |-> FALSE])
  /\ con' = SendFailsEffect(con, st, th)
  /\ any_fail' = TRUE
  /\ NextStation
  /\ hist' = [hist EXCEPT ![<<st, th>>] = ObserveAbove(@, TRUE, "fail")]
  /\ UNCHANGED <<legacy, settings, call, stations, crashes, now, disk, alert_on_start, email_ok, scen>>

\* send_email raises and the transaction of the cycle is rolled back
ThresholdSendFails_RollsBack ==
  /\ pc = "threshold"
  /\ Value >= Th
  /\ IsArmed(con, st, th)
  /\ ~Suppressed(con, st, th)
  /\ email_ok
  /\ sends' = Append(sends, [station |-> st, idx |-> th, ok |-> FALSE])
  /\ con' = disk
  /\ NextThreshold
  /\ hist' = [hist EXCEPT ![<<st, th>>] = ObserveAbove(@, TRUE, "fail")]
  /\ UNCHANGED <<legacy, settings, call, stations, crashes, now, st, index_map, disk, any_fail, alert_on_start, email_ok, scen>>

\* send_email raises: reported, the loop goes on
ThresholdSendFails ==
  /\ pc = "threshold"
  /\ Value >= Th
  /\ IsArmed(con, st, th)
  /\ ~Suppressed(con, st, th)
  /\ email_ok
  /\ sends' = Append(sends, [station |-> st, idx |-> th, ok |-> FALSE])
  /\ con' = SendFailsEffect(con, st, th)
  /\ NextThreshold
  /\ hist' = [hist EXCEPT ![<<st, th>>] = ObserveAbove(@, TRUE, "fail")]
  /\ UNCHANGED <<legacy, settings, call, stations, crashes, now, st, index_map, disk, any_fail, alert_on_start, email_ok, scen>>

\* last_level only ever raised
WriteLastLevel_KeepsHighest ==
  /\ pc = "last_level"
  /\ con' = IF _compute_level(Value, thresholds_cm(st)) > db_get_state(con, key_last_level(st))
            THEN db_set_state(con, key_last_level(st), _compute_level(Value, thresholds_cm(st)))
            ELSE con
  /\ NextStation
  /\ scen' = [scen EXCEPT ![st] =
                ScenStep(@, _compute_level(Value, thresholds_cm(st)), Len(thresholds_cm(st)), Dt)]
  /\ UNCHANGED <<legacy, settings, call, stations, crashes, now, disk, any_fail, alert_on_start, email_ok, sends, hist>>

\* last_level written and the station committed on its own
WriteLastLevel_Commits ==
  /\ pc = "last_level"
  /\ con' = db_set_state(con, key_last_level(st), _compute_level(Value, thresholds_cm(st)))
  /\ disk' = con'
  /\ NextStation
  /\ scen' = [scen EXCEPT ![st] =
                ScenStep(@, _compute_level(Value, thresholds_cm(st)), Len(thresholds_cm(st)), Dt)]
  /\ UNCHANGED <<legacy, settings, call, stations, crashes, now, any_fail, alert_on_start, email_ok, sends, hist>>

\* last_level written after the threshold loop
WriteLastLevel ==
  /\ pc = "last_level"
  /\ con' = db_set_state(con, key_last_level(st), _compute_level(Value, thresholds_cm(st)))
  /\ NextStation
  /\ scen' = [scen EXCEPT ![st] =
                ScenStep(@, _compute_level(Value, thresholds_cm(st)), Len(thresholds_cm(st)), Dt)]
  /\ UNCHANGED <<legacy, settings, call, stations, crashes, now, disk, any_fail, alert_on_start, email_ok, sends, hist>>

\* check_once returning success whatever happened
ExitStatus_Success == IF any_fail THEN 0 ELSE 0

\* the value check_once returns at line 780
ExitStatus == IF any_fail THEN 1 ELSE 0

\* con.commit() and return
Commit ==
  /\ pc = "commit"
  /\ disk' = LiveRows(con, now)
  /\ con' = LiveRows(con, now)
  /\ pc' = "idle"
  /\ any_fail' = FALSE
  /\ sends' = <<>>
  /\ UNCHANGED <<legacy, settings, call, stations, crashes, now, st, th, index_map, alert_on_start, email_ok, hist, scen>>

\* the process is stopped inside a cycle: the open transaction is lost and
\* the next start sees the committed database
Crash ==
  /\ pc # "idle"
  /\ crashes < MaxCrashes
  /\ crashes' = crashes + 1
  /\ con' = disk
  /\ pc' = "idle"
  /\ st' = 0
  /\ th' = 0
  /\ index_map' = NoFeed
  /\ any_fail' = FALSE
  /\ sends' = <<>>
  /\ UNCHANGED <<legacy, settings, call, stations, now, disk, alert_on_start, email_ok, hist, scen>>

Next ==
  \/ FetchIndex
  \/ FetchIndexFails
  \/ StationFails
  \/ StationInsert
  \/ ThresholdBelow
  \/ ThresholdNotArmed
  \/ ThresholdSuppressed
  \/ ThresholdNoEmail
  \/ ThresholdSendOk
  \/ ThresholdSendFails
  \/ WriteLastLevel
  \/ Commit

Spec == Init /\ [][Next]_vars

NextCrash == Next \/ Crash

SpecCrash == Init /\ [][NextCrash]_vars

\* -------------------------------------------- _compute_level on its own
\* sequences of n numbers from 1..m
RECURSIVE Lists(_, _)
Lists(n, m) ==
  IF n = 0 THEN {<<>>}
  ELSE {Append(q, t) : q \in Lists(n - 1, m), t \in 1..m}

StrictlyAscending(q) == \A i \in 1..(Len(q) - 1) : q[i] < q[i + 1]

\* the strictly ascending threshold lists
ThresholdLists ==
  {q \in UNION {Lists(n, MaxThreshold) : n \in 1..MaxLevels} : StrictlyAscending(q)}

LevelCalls ==
  {[fn |-> "_compute_level", value |-> v, thresholds |-> q, result |-> NoRow] :
     v \in 0..(MaxThreshold + 1), q \in ThresholdLists}

InitLevel ==
  /\ stations = << [thresholds_cm |-> <<1, 2, 3>>] >>
  /\ now = 0
  /\ pc = "idle"
  /\ st = 0
  /\ th = 0
  /\ index_map = NoFeed
  /\ con = EmptyDb
  /\ disk = EmptyDb
  /\ any_fail = FALSE
  /\ alert_on_start = FALSE
  /\ email_ok = FALSE
  /\ sends = <<>>
  /\ crashes = 0
  /\ hist = [p \in AllTh |-> Hist0]
  /\ scen = [s \in 1..2 |-> Scen0]
  /\ call \in LevelCalls
  /\ settings = DefaultSettings
  /\ legacy = NoLegacy

ComputeLevel ==
  /\ call.fn = "_compute_level"
  /\ call.result = NoRow
  /\ call' = [call EXCEPT !.result = _compute_level(call.value, call.thresholds)]
  /\ UNCHANGED <<legacy, settings, stations, now, pc, st, th, index_map, con, disk, any_fail, alert_on_start, email_ok, sends, crashes, hist, scen>>

SpecLevel == InitLevel /\ [][ComputeLevel]_vars

\* ------------------------------------------ load_settings, for one station
\* sorted(vals)
RECURSIVE Insert(_, _)
Insert(q, x) ==
  IF q = <<>> THEN <<x>>
  ELSE IF x <= Head(q) THEN <<x>> \o q
  ELSE <<Head(q)>> \o Insert(Tail(q), x)

RECURSIVE Sorted(_)
Sorted(q) == IF q = <<>> THEN <<>> ELSE Insert(Sorted(Tail(q)), Head(q))

\* a raised ValueError
ParseError == [ok |-> FALSE, vals |-> <<>>]

Parsed(q) == [ok |-> TRUE, vals |-> q]

Positive(x) == x > 0

\* _parse_thresholds_for_section.  key names the threshold key the section
\* holds: "thresholds_cm" with the list raw, "threshold1_cm" with raw the
\* values of threshold1_cm..threshold4_cm (0: not set), "threshold_cm" with
\* the single value raw[1], or "" (none of them).
_parse_thresholds_for_section(key, raw, fallback_thresholds) ==
  IF key = "thresholds_cm"
  THEN IF Len(raw) \notin {3, 4} THEN ParseError
       ELSE IF \E i \in 1..Len(raw) : Sorted(raw)[i] <= 0 THEN ParseError
       ELSE IF ~StrictlyAscending(Sorted(raw)) THEN ParseError
       ELSE Parsed(Sorted(raw))
  ELSE IF key = "threshold1_cm"
  THEN IF Len(SelectSeq(raw, Positive)) \notin {3, 4} THEN ParseError
       ELSE IF ~StrictlyAscending(Sorted(SelectSeq(raw, Positive))) THEN ParseError
       ELSE Parsed(Sorted(SelectSeq(raw, Positive)))
  ELSE IF key = "threshold_cm"
  THEN IF raw[1] <= 0 THEN ParseError ELSE Parsed(<<raw[1]>>)
  ELSE Parsed(fallback_thresholds)

\* n level names
Names(n) == [i \in 1..n |-> i]

\* level_names taken as configured, whatever their number
_parse_level_names_for_section_Unchecked(names, fallback, n_levels) ==
  IF names # NoRow THEN Parsed(Names(names))
  ELSE IF Len(fallback) = n_levels THEN Parsed(fallback)
  ELSE Parsed(Names(n_levels))

\* _parse_level_names_for_section.  names is the number of non-empty entries
\* of the section's level_names, NoRow when the section has none.
_parse_level_names_for_section(names, fallback, n_levels) ==
  IF names # NoRow
  THEN IF names # n_levels THEN ParseError ELSE Parsed(Names(names))
  ELSE IF Len(fallback) = n_levels THEN Parsed(fallback)
  ELSE Parsed(Names(n_levels))

\* the station built by load_settings from one entry of stations
LoadStation(key, raw, names, fallback_thresholds) ==
  LET t == _parse_thresholds_for_section(key, raw, fallback_thresholds)
      n == _parse_level_names_for_section(names, Names(Len(fallback_thresholds)), Len(t.vals))
  IN IF ~t.ok THEN [ok |-> FALSE, thresholds_cm |-> <<>>, level_names |-> <<>>]
     ELSE IF ~StrictlyAscending(t.vals) \/ \E i \in 1..Len(t.vals) : t.vals[i] <= 0
          THEN [ok |-> FALSE, thresholds_cm |-> <<>>, level_names |-> <<>>]
     ELSE IF ~n.ok THEN [ok |-> FALSE, thresholds_cm |-> <<>>, level_names |-> <<>>]
     ELSE [ok |-> TRUE, thresholds_cm |-> t.vals, level_names |-> n.vals]

\* sequences of 0..n values from 0..m
RECURSIVE RawLists(_, _)
RawLists(n, m) ==
  IF n = 0 THEN {<<>>}
  ELSE RawLists(n - 1, m) \cup {Append(q, t) : q \in {r \in RawLists(n - 1, m) : Len(r) = n - 1}, t \in 0..m}

\* the global thresholds a configuration that loads can hold
FallbackThresholds == {<<2>>, <<1, 2, 3>>, <<1, 2, 3, 4>>}

\* what a station entry can hold: a threshold key and its values, lists of
\* up to n values from 0..m
StationEntries(n, m) ==
  {<<"thresholds_cm", q>> : q \in RawLists(n, m)}
  \cup {<<"threshold1_cm", q>> : q \in {r \in RawLists(4, m) : Len(r) = 4}}
  \cup {<<"threshold_cm", <<x>> >> : x \in 0..m}
  \cup {<<"", <<>> >>}

NotLoaded == [ok |-> FALSE, thresholds_cm |-> <<>>, level_names |-> <<>>]

\* station entries with none or 0..n level names, under every fallback
ConfigCalls(n, m) ==
  {[fn |-> "load_settings", key |-> e[1], raw |-> e[2], names |-> k,
    fallback |-> f, done |-> FALSE, station |-> NotLoaded] :
     e \in StationEntries(n, m), k \in {NoRow} \cup 0..n, f \in FallbackThresholds}

InitConfig ==
  /\ stations = << [thresholds_cm |-> <<1, 2, 3>>] >>
  /\ now = 0
  /\ pc = "idle"
  /\ st = 0
  /\ th = 0
  /\ index_map = NoFeed
  /\ con = EmptyDb
  /\ disk = EmptyDb
  /\ any_fail = FALSE
  /\ alert_on_start = FALSE
  /\ email_ok = FALSE
  /\ sends = <<>>
  /\ crashes = 0
  /\ hist = [p \in AllTh |-> Hist0]
  /\ scen = [s \in 1..2 |-> Scen0]
  /\ call \in ConfigCalls(MaxRawLen, MaxRaw)
  /\ settings = DefaultSettings
  /\ legacy = NoLegacy

LoadSettings ==
  /\ call.fn = "load_settings"
  /\ ~call.done
  /\ call' = [call EXCEPT !.done = TRUE,
                          !.station = LoadStation(call.key, call.raw, call.names, call.fallback)]
  /\ UNCHANGED <<legacy, settings, stations, now, pc, st, th, index_map, con, disk, any_fail, alert_on_start, email_ok, sends, crashes, hist, scen>>

SpecConfig == InitConfig /\ [][LoadSettings]_vars

\* feeds whose timestamps come with and without UTC offset
NextTz == Next \/ FetchIndexNaive \/ ThresholdBelowRaises

SpecTz == Init /\ [][NextTz]_vars

\* ------------------------------- check_once under every [runtime] setting
InitSettings ==
  /\ stations = << [thresholds_cm |-> <<1, 2, 3>>] >>
  /\ now = 0
  /\ pc = "idle"
  /\ st = 0
  /\ th = 0
  /\ index_map = NoFeed
  /\ con = EmptyDb
  /\ disk = EmptyDb
  /\ any_fail = FALSE
  /\ alert_on_start \in BOOLEAN
  /\ email_ok \in BOOLEAN
  /\ sends = <<>>
  /\ crashes = 0
  /\ hist = [p \in AllTh |-> Hist0]
  /\ scen = [s \in 1..2 |-> Scen0]
  /\ call = NoCall
  /\ settings \in SettingsSet
  /\ legacy = NoLegacy

SpecSettings == InitSettings /\ [][Next]_vars

\* ------------------- the single-threshold scripts and their rate limit
\* Multi_Pegel.py: several stations, one threshold_cm each, one rate limit per
\* station; pegel_alarm.py: one station, one rate limit.  Time is counted in
\* units of minutes of the wall clock, one cycle per unit.
MaxLegacyTime == 3   \* cycles at now = 1..MaxLegacyTime

LegacyVariants == {"Multi_Pegel", "pegel_alarm"}

\* settings.stations of Multi_Pegel.py; the one station of pegel_alarm.py
LegacyStations(variant) ==
  IF variant = "Multi_Pegel"
  THEN << [threshold_cm |-> 1], [threshold_cm |-> 2] >>
  ELSE << [threshold_cm |-> 2] >>

\* the state key of the last alert: f"last_alert_ts:{station_no}:{parameter}"
\* in Multi_Pegel.py, "last_alert_ts" in pegel_alarm.py (written 0)
last_alert_key(variant, s) == IF variant = "Multi_Pegel" THEN s ELSE 0

LegacyKeys == 0..2

LegacyInits ==
  [ variant : LegacyVariants,
    min_alert_interval_minutes : {1, 2},
    email_ok : BOOLEAN,
    now : {0},
    pc : {"idle"},
    st : {0},
    index_map : {<<>>},
    state : {[k \in LegacyKeys |-> NoRow]},
    measurements : {{}},
    any_fail : {FALSE},
    sends : {<<>>},       \* send_email calls of the current cycle: key and outcome
    recorded : {{}},      \* history: <<key, time>> of every last_alert_ts written
    limited : {{}} ]      \* history: <<key, time>> of every alert the rate limit held back

\* the station under evaluation, its feed entry and its state key
LegacyCur == legacy.index_map[legacy.st]

LegacyTh == LegacyStations(legacy.variant)[legacy.st].threshold_cm

LegacyKey == last_alert_key(legacy.variant, legacy.st)

\* last_alert_dt = _to_dt(last_alert_ts) if last_alert_ts else None
last_alert_dt ==
  IF Truthy(legacy.state[LegacyKey]) THEN _to_dt(legacy.state[LegacyKey]) ELSE NoRow

\* the rate limit switched off
RateLimited_Off(t, last) == FALSE

\* delta_min < settings.min_alert_interval_minutes, with an alert recorded
RateLimited(t, last) ==
  last # NoRow /\ t - last < legacy.min_alert_interval_minutes

\* should_alert after the rate limit
should_alert ==
  LegacyCur.val >= LegacyTh /\ ~RateLimited(legacy.now, last_alert_dt)

\* INSERT OR IGNORE of the station's reading
LegacyInsert(rows) == rows \cup {<<legacy.st, LegacyCur.ts>>}

\* check_once entry: the feed is fetched, now is read
LegacyFetch ==
  /\ legacy.pc = "idle"
  /\ legacy.now < MaxLegacyTime
  /\ \E f \in [1..Len(LegacyStations(legacy.variant)) -> FeedEntries(legacy.now + 1)] :
       legacy' = [legacy EXCEPT !.now = @ + 1, !.index_map = f, !.pc = "station", !.st = 1,
                                !.any_fail = FALSE, !.sends = <<>>,
                                !.measurements = {r \in @ : r[2] >= legacy.now}]
  /\ UNCHANGED <<settings, call, stations, now, pc, st, th, index_map, con, disk, any_fail, alert_on_start, email_ok, sends, crashes, hist, scen>>

\* fetch_index of Multi_Pegel.py raises: check_once is left before the loop
LegacyFetchFails ==
  /\ legacy.pc = "idle"
  /\ legacy.variant = "Multi_Pegel"
  /\ legacy.now < MaxLegacyTime
  /\ legacy' = [legacy EXCEPT !.now = @ + 1, !.sends = <<>>,
                              !.measurements = {r \in @ : r[2] >= legacy.now}]
  /\ UNCHANGED <<settings, call, stations, now, pc, st, th, index_map, con, disk, any_fail, alert_on_start, email_ok, sends, crashes, hist, scen>>

\* the station loop moves on; after the last station commit and return
LegacyNext(l) ==
  IF l.st < Len(LegacyStations(l.variant))
  THEN [l EXCEPT !.st = @ + 1]
  ELSE [l EXCEPT !.pc = "idle", !.st = 0]

\* no usable reading for the station: latest_for_station (fetch_latest) raises
LegacyStationFails ==
  /\ legacy.pc = "station"
  /\ LegacyCur.kind # "ok"
  /\ legacy' = LegacyNext([legacy EXCEPT !.any_fail = TRUE])
  /\ UNCHANGED <<settings, call, stations, now, pc, st, th, index_map, con, disk, any_fail, alert_on_start, email_ok, sends, crashes, hist, scen>>

\* reading stored, no alert: below the threshold or held back by the rate limit
LegacyQuiet ==
  /\ legacy.pc = "station"
  /\ LegacyCur.kind = "ok"
  /\ ~should_alert
  /\ legacy' = LegacyNext([legacy EXCEPT
                  !.measurements = LegacyInsert(@),
                  !.limited = IF LegacyCur.val >= LegacyTh
                              THEN @ \cup {<<LegacyKey, legacy.now>>} ELSE @])
  /\ UNCHANGED <<settings, call, stations, now, pc, st, th, index_map, con, disk, any_fail, alert_on_start, email_ok, sends, crashes, hist, scen>>

\* alert due, e-mail configuration incomplete: warning only (pegel_alarm.py
\* returns 3)
LegacyNoEmail ==
  /\ legacy.pc = "station"
  /\ LegacyCur.kind = "ok"
  /\ should_alert
  /\ ~legacy.email_ok
  /\ legacy' = LegacyNext([legacy EXCEPT !.measurements = LegacyInsert(@)])
  /\ UNCHANGED <<settings, call, stations, now, pc, st, th, index_map, con, disk, any_fail, alert_on_start, email_ok, sends, crashes, hist, scen>>

\* send_email returns: last_alert_ts = now
LegacySendOk ==
  /\ legacy.pc = "station"
  /\ LegacyCur.kind = "ok"
  /\ should_alert
  /\ legacy.email_ok
  /\ legacy' = LegacyNext([legacy EXCEPT
                  !.measurements = LegacyInsert(@),
                  !.sends = Append(@, [key |-> LegacyKey, ok |-> TRUE]),
                  !.state[LegacyKey] = legacy.now,
                  !.recorded = @ \cup {<<LegacyKey, legacy.now>>}])
  /\ UNCHANGED <<settings, call, stations, now, pc, st, th, index_map, con, disk, any_fail, alert_on_start, email_ok, sends, crashes, hist, scen>>

\* send_email raises and last_alert_ts is written all the same
LegacySendFails_Records ==
  /\ legacy.pc = "station"
  /\ LegacyCur.kind = "ok"
  /\ should_alert
  /\ legacy.email_ok
  /\ legacy' = LegacyNext([legacy EXCEPT
                  !.measurements = LegacyInsert(@),
                  !.sends = Append(@, [key |-> LegacyKey, ok |-> FALSE]),
                  !.state[LegacyKey] = legacy.now,
                  !.any_fail = TRUE])
  /\ UNCHANGED <<settings, call, stations, now, pc, st, th, index_map, con, disk, any_fail, alert_on_start, email_ok, sends, crashes, hist, scen>>

\* send_email raises: nothing recorded, the reading stays stored
LegacySendFails ==
  /\ legacy.pc = "station"
  /\ LegacyCur.kind = "ok"
  /\ should_alert
  /\ legacy.email_ok
  /\ legacy' = LegacyNext([legacy EXCEPT
                  !.measurements = LegacyInsert(@),
                  !.sends = Append(@, [key |-> LegacyKey, ok |-> FALSE]),
                  !.any_fail = TRUE])
  /\ UNCHANGED <<settings, call, stations, now, pc, st, th, index_map, con, disk, any_fail, alert_on_start, email_ok, sends, crashes, hist, scen>>

\* the value check_once of Multi_Pegel.py returns
LegacyExitStatus == IF legacy.any_fail THEN 1 ELSE 0

InitLegacy ==
  /\ stations = << [thresholds_cm |-> <<1, 2, 3>>] >>
  /\ now = 0
  /\ pc = "idle"
  /\ st = 0
  /\ th = 0
  /\ index_map = NoFeed
  /\ con = EmptyDb
  /\ disk = EmptyDb
  /\ any_fail = FALSE
  /\ alert_on_start = FALSE
  /\ email_ok = FALSE
  /\ sends = <<>>
  /\ crashes = 0
  /\ hist = [p \in AllTh |-> Hist0]
  /\ scen = [s \in 1..2 |-> Scen0]
  /\ call = NoCall
  /\ settings = DefaultSettings
  /\ legacy \in LegacyInits

NextLegacy ==
  \/ LegacyFetch
  \/ LegacyFetchFails
  \/ LegacyStationFails
  \/ LegacyQuiet
  \/ LegacyNoEmail
  \/ LegacySendOk
  \/ LegacySendFails

SpecLegacy == InitLegacy /\ [][NextLegacy]_vars

\* ======================================================================
\* Properties
\* ======================================================================
\* the stored armed flag of threshold p = <<station, index>> is "0"
StoredDisarmed(db, p) == db.state[key_armed(p[1], p[2])] = Str0

\* send_email calls of the current cycle for threshold p
SendsFor(p) == {k \in 1..Len(sends) : sends[k].station = p[1] /\ sends[k].idx = p[2]}

\* a step in which send_email returned for threshold p
Delivers(p) ==
  /\ Len(sends') = Len(sends) + 1
  /\ sends'[Len(sends')] = [station |-> p[1], idx |-> p[2], ok |-> TRUE]

\* C1 - Monotonic disarm.  A step that delivers a notification for a
\* threshold leaves its stored armed flag "0"; the flag of a disarmed threshold
\* changes only in a step that evaluates a reading below the threshold which
\* continues a streak of below readings begun at least rearm_below_hours
\* earlier; and commit makes exactly that flag durable.
C1_MonotonicDisarm ==
  [][ \A p \in Thresholds :
        /\ Delivers(p) => StoredDisarmed(con', p)
        /\ (StoredDisarmed(con, p) /\ ~StoredDisarmed(con', p)) =>
              /\ pc = "threshold" /\ <<st, th>> = p
              /\ Value < Th
              /\ hist[p].lowStart # NoRow
              /\ Dt - hist[p].lowStart >= rearm_below_hours
        /\ (pc = "commit" /\ pc' = "idle") =>
              (StoredDisarmed(disk', p) <=> StoredDisarmed(con, p)) ]_vars

\* a threshold that was notified (alert_on_start, so never suppressed) and
\* has been re-armed by a long enough below streak
C1_Witness ==
  \E p \in Thresholds :
    /\ alert_on_start
    /\ con.state[key_armed(p[1], p[2])] = Str1
    /\ hist[p].lowStart # NoRow
    /\ hist[p].lowLast - hist[p].lowStart >= rearm_below_hours

\* C3 - at most one send_email call per (station, threshold) in a cycle, and
\* none for a threshold whose stored flag was "0" when the cycle began (the
\* committed database is the database the cycle started from).
C3_AtMostOnePerCycle ==
  \A p \in Thresholds :
    /\ Cardinality(SendsFor(p)) <= 1
    /\ (pc # "idle" /\ StoredDisarmed(disk, p)) => SendsFor(p) = {}

\* end of a cycle that mailed for the second threshold of a station while the
\* first, also reached, was disarmed at entry and stayed silent
C3_Witness ==
  /\ pc = "commit"
  /\ Len(stations) = 1
  /\ StoredDisarmed(disk, <<1, 1>>)
  /\ SendsFor(<<1, 1>>) = {}
  /\ Cardinality(SendsFor(<<1, 2>>)) = 1

FailsToSend(p) ==
  /\ Len(sends') = Len(sends) + 1
  /\ sends'[Len(sends')] = [station |-> p[1], idx |-> p[2], ok |-> FALSE]

\* a step that calls send_email for threshold p
Attempts(p) ==
  /\ Len(sends') = Len(sends) + 1
  /\ sends'[Len(sends')].station = p[1]
  /\ sends'[Len(sends')].idx = p[2]

C5_SendFailureRetried ==
  [][ \A p \in Thresholds :
        /\ FailsToSend(p) =>
             /\ con'.state[key_armed(p[1], p[2])] = con.state[key_armed(p[1], p[2])]
             /\ ~StoredDisarmed(con', p)
             /\ any_fail' = any_fail
             /\ st' = st
             /\ pc' = IF p[2] < Len(thresholds_cm(p[1])) THEN "threshold" ELSE "last_level"
        /\ ( /\ pc = "threshold" /\ <<st, th>> = p
             /\ Value >= Th
             /\ hist[p].failed /\ hist[p].delivered = 0 )
           => Attempts(p) ]_vars

\* a send that raised in one cycle was repeated and delivered in a later cycle
C5_Witness ==
  \E p \in Thresholds :
    /\ hist[p].failed
    /\ hist[p].hiLen = 2
    /\ hist[p].delivered = 1
    /\ \E k \in SendsFor(p) : sends[k].ok

\* C6 - for a crossing whose send raised: as long as nothing was delivered
\* the threshold is still armed and will fire (nothing lost), at most one
\* notification is ever delivered for it, and once it is the threshold is
\* disarmed (nothing duplicated).
C6_NoLossNoDuplicate ==
  \A p \in Thresholds :
    hist[p].failed =>
      /\ hist[p].delivered <= 1
      /\ hist[p].delivered = 0 =>
           (con.state[key_armed(p[1], p[2])] = Str1
            \/ (con.state[key_armed(p[1], p[2])] = NoRow /\ alert_on_start))
      /\ hist[p].delivered = 1 => StoredDisarmed(con, p)

\* a crossing whose send raised, delivered later, and evaluated again at or
\* above the threshold without another mail
C6_Witness ==
  \E p \in Thresholds :
    /\ hist[p].failed
    /\ hist[p].delivered = 1
    /\ hist[p].hiLen = 2
    /\ pc = "last_level"
    /\ st = p[1]
    /\ SendsFor(p) = {}

\* C7 - across process stops and restarts no crossing is notified more than
\* once: at most one notification is delivered for a threshold between two
\* readings below it.
C7_AtMostOncePerCrossing ==
  \A p \in Thresholds : hist[p].delivered < 2

\* C9 - with alert_on_start false, a station that has been evaluated before,
\* always below threshold i, notifies threshold i in the first cycle that
\* evaluates a value >= threshold i (e-mail configured).
C9_SuppressionFirstPollOnly ==
  [][ \A p \in Thresholds :
        ( /\ pc = "threshold" /\ <<st, th>> = p
          /\ ~alert_on_start
          /\ email_ok
          /\ scen[p[1]].ph # 0
          /\ ~hist[p].everAbove
          /\ Value >= Th )
        => Attempts(p) ]_vars

\* send_email calls of the current cycle for station s
SendsOf(s) == {k \in 1..Len(sends) : sends[k].station = s}

\* the value under evaluation is at or above every threshold of the station
AllAbove == \A i \in ThIdx(st) : Value >= thresholds_cm(st)[i]

\* first two parts of the scenario, at the end of the evaluation of a station
ScenarioStart ==
  /\ (scen[st].ph = 0 /\ ~alert_on_start /\ AllAbove) =>
       /\ \A i \in ThIdx(st) :
            /\ disk.state[key_armed(st, i)] = NoRow
            /\ StoredDisarmed(con, <<st, i>>)
       /\ SendsOf(st) = {}
       /\ con'.state[key_last_level(st)] = Len(thresholds_cm(st))
  /\ (scen[st].ph \in {1, 2} /\ AllAbove) => SendsOf(st) = {}

\* C10 (as stated) - scenario.  No state, alert_on_start false: the first
\* evaluation, at or above all N thresholds, disarms them all without a mail
\* and stores last_level = N; further such cycles mail nothing; after the value
\* has dropped below all thresholds and rearm_below_hours have gone by since,
\* a cycle at or above all thresholds notifies all N (read in the claim's
\* favour: e-mail configured, and a send_email call counts as the notification).
C10_Original ==
  [][ pc = "last_level" =>
        /\ ScenarioStart
        /\ ( /\ scen[st].ph = 3 /\ AllAbove
             /\ Dt - scen[st].t0 >= rearm_below_hours
             /\ email_ok ) =>
             \A i \in ThIdx(st) : SendsFor(<<st, i>>) # {} ]_vars

\* C10 (amended) - as above, the last part reading: after the value has
\* dropped below all thresholds and a later reading below all thresholds is
\* stamped at least rearm_below_hours after the first one, a cycle at or above
\* all thresholds (e-mail configured) calls send_email once for each of the N
\* thresholds, in ascending order, and every one that returns disarms its
\* threshold.
C10_Scenario ==
  [][ pc = "last_level" =>
        /\ ScenarioStart
        /\ ( /\ scen[st].ph = 3 /\ AllAbove
             /\ scen[st].tl - scen[st].t0 >= rearm_below_hours
             /\ email_ok ) =>
             /\ Len(sends) >= Len(thresholds_cm(st))
             /\ \A i \in ThIdx(st) :
                  LET k == Len(sends) - Len(thresholds_cm(st)) + i IN
                  /\ sends[k].station = st /\ sends[k].idx = i
                  /\ sends[k].ok => StoredDisarmed(con, <<st, i>>)
                  /\ SendsFor(<<st, i>>) = {k} ]_vars

\* the scenario run to its end with three thresholds: all three notified
C10_Witness ==
  /\ Len(stations) = 1
  /\ pc = "commit"
  /\ scen[1].ph = 4
  /\ Len(sends) = 3
  /\ sends[1] = [station |-> 1, idx |-> 1, ok |-> TRUE]
  /\ sends[2] = [station |-> 1, idx |-> 2, ok |-> TRUE]
  /\ sends[3] = [station |-> 1, idx |-> 3, ok |-> TRUE]

\* C11 - Hysteresis.  As long as no streak of consecutive readings below a
\* threshold has spanned rearm_below_hours (first to latest timestamp of the
\* streak), however the value moves across the threshold, at most one
\* notification has been delivered for that threshold.
C11_Hysteresis ==
  \A p \in Thresholds : ~hist[p].longLow => hist[p].total <= 1

\* a threshold notified once, then read below it for less than
\* rearm_below_hours, then read at or above it again without a mail
C11_Witness ==
  \E p \in Thresholds :
    /\ pc = "last_level" /\ st = p[1]
    /\ ~hist[p].longLow
    /\ hist[p].total = 1
    /\ hist[p].hiLen = 1
    /\ hist[p].delivered = 0
    /\ SendsFor(p) = {}

\* the measurement rows of station s
RowsOf(db, s) == {r \in db.measurements : r.station = s}

\* C12 - Per-station failure isolation.  A station whose feed entry is
\* missing or unparsable changes nothing in the database, sends nothing and
\* hands over to the next configured station, whose feed entry is untouched;
\* and every station reached with a readable entry is evaluated: its
\* measurement is appended and its thresholds are walked from the first.
C12_FailureIsolation ==
  [][ pc = "station" =>
        /\ Cur.kind # "ok" =>
             /\ con' = con /\ disk' = disk /\ sends' = sends /\ hist' = hist
             /\ IF st < Len(stations)
                THEN /\ pc' = "station" /\ st' = st + 1
                     /\ index_map'[st + 1] = index_map[st + 1]
                ELSE pc' = "commit"
        /\ Cur.kind = "ok" =>
             /\ pc' = "threshold" /\ st' = st /\ th' = 1
             /\ \E r \in RowsOf(con', st) : r.ts = Cur.ts ]_vars

\* the first of two stations failed and the second, at or above its
\* threshold, was recorded and notified in the same cycle
C12_Witness ==
  /\ Len(stations) = 2
  /\ pc = "last_level" /\ st = 2
  /\ any_fail
  /\ RowsOf(con, 1) = {}
  /\ \E r \in RowsOf(con, 2) : r.ts = Dt
  /\ sends = << [station |-> 2, idx |-> 1, ok |-> TRUE] >>

\* the state-table entries of station s
StateOf(db, s) ==
  [k \in {q \in StateKeys : q[2] = s} |-> db.state[k]]

\* C13 - a station whose evaluation fails leaves no partial state.  The step
\* in which the evaluation of a station is given up (the loop moves on without
\* having written last_level) leaves the station's armed, below_since and
\* last_level entries and its measurement rows as the cycle found them (the
\* committed database).
C13_NoPartialState ==
  [][ ( /\ pc \in {"station", "threshold"}
        /\ pc' \in {"station", "commit"}
        /\ any_fail' )
      => ( /\ StateOf(con', st) = StateOf(disk, st)
           /\ RowsOf(con', st) = RowsOf(disk, st) ) ]_vars

\* a step in which the evaluation of a station is given up: the station loop
\* moves on without the station having reached the write of last_level
GivesUpStation ==
  /\ pc \in {"station", "threshold"}
  /\ pc' \in {"station", "commit"}

C15_LevelComputation ==
  (call.fn = "_compute_level" /\ call.result # NoRow) =>
    LET v == call.value
        q == call.thresholds
    IN /\ call.result = Cardinality({i \in 1..Len(q) : v >= q[i]})
       /\ call.result \in 0..Len(q)
       /\ (call.result = 0) <=> (v < q[1])
       /\ \A k \in 1..Len(q) : v = q[k] => call.result = k

\* a value equal to the second of three thresholds was given level 2
C15_Witness ==
  /\ call.fn = "_compute_level"
  /\ Len(call.thresholds) = 3
  /\ call.value = call.thresholds[2]
  /\ call.result = 2

\* the rows stored under the key (station s, timestamp ts)
RowsAt(db, s, ts) == {r \in RowsOf(db, s) : r.ts = ts}

\* C16 - Idempotent ingestion.  After the insert of a measurement exactly one
\* row is stored under its key (station, parameter, timestamp); when a row
\* was stored under that key already, by this or by an earlier cycle, the
\* insert leaves the measurement store as it was.
C16_IdempotentIngestion ==
  [][ (pc = "station" /\ Cur.kind = "ok") =>
        /\ Cardinality(RowsAt(con', st, ts_iso)) = 1
        /\ RowsAt(con, st, ts_iso) # {} => con'.measurements = con.measurements ]_vars

\* a measurement was inserted under a key that an earlier cycle had stored
\* and committed with another value: the stored row is the earlier one
C16_Witness ==
  /\ pc = "threshold"
  /\ RowsAt(disk, st, ts_iso) # {}
  /\ RowsAt(con, st, ts_iso) = RowsAt(disk, st, ts_iso)
  /\ \A r \in RowsAt(con, st, ts_iso) : r.value # Value

\* C17 - one fetch per cycle, before any station.  A cycle starts by taking the
\* feed snapshot and turns to the first configured station; until the cycle
\* has ended no new snapshot is taken (the snapshot entries of the station
\* under evaluation and of those still to come do not change), and the
\* stations are evaluated one after another in configuration order, the commit
\* following the last.
C17_SingleSnapshot ==
  [][ /\ (pc = "idle" /\ pc' # "idle") => (pc' = "station" /\ st' = 1)
      /\ pc # "idle" =>
            /\ now' = now
            /\ \A s \in StationIds : s > st => index_map'[s] = index_map[s]
            /\ st' = st => index_map' = index_map
            /\ st' # st =>
                 \/ pc' = "station" /\ st' = st + 1
                 \/ pc' = "commit" /\ st = Len(stations) ]_vars

\* the second of two stations under evaluation after the first was recorded,
\* in the first cycle
C17_Witness ==
  /\ Len(stations) = 2
  /\ now = 1
  /\ pc = "threshold" /\ st = 2
  /\ RowsOf(con, 1) # {}
  /\ RowsOf(con, 2) # {}

\* C18 - a cycle whose feed fetch fails or whose payload is no array ends
\* where it began: no station is evaluated, the measurements and the state
\* table are as before, in the transaction and on disk, and no notification
\* is sent.
C18_FeedFailureFailsCycle ==
  [][ (pc = "idle" /\ now' # now /\ pc' = "idle") =>
        /\ con' = con /\ disk' = disk
        /\ sends' = <<>>
        /\ hist' = hist /\ scen' = scen
        /\ st' = st /\ th' = th ]_vars

\* between two cycles, after a cycle whose fetch failed: the measurement an
\* earlier cycle recorded and the threshold it disarmed are still there
C18_Witness ==
  /\ pc = "idle"
  /\ \E r \in disk.measurements : r.ts < now
  /\ \E p \in Thresholds : StoredDisarmed(disk, p)
  /\ con = disk

\* C19 - in daemon mode no error ends the process.  Whatever happened in the
\* cycles so far, the driver waiting between two cycles can start the next
\* one, and inside a cycle there is always a next step; the driver sleeps once
\* (one unit of time) and enters a cycle, which either fails at the fetch and
\* leaves the driver waiting again or turns to the stations; and a cycle that
\* has run through the stations, with or without failures, returns to the
\* waiting driver.
C19_DaemonNeverEnds ==
  /\ [](pc = "idle" /\ now < Horizon => ENABLED FetchIndex /\ ENABLED FetchIndexFails)
  /\ [](pc # "idle" => ENABLED Next)
  /\ [][ /\ pc = "idle" => (now' = now + 1 /\ pc' \in {"idle", "station"})
         /\ pc = "commit" => pc' = "idle" ]_vars

\* a third cycle under way after two cycles in which nothing could be
\* evaluated (feed or station failure)
C19_Witness ==
  /\ Len(stations) = 1
  /\ now = 3
  /\ pc = "threshold"
  /\ scen[1].ph = 0
  /\ disk = EmptyDb

\* C20 - every station that configuration loading returns has strictly
\* increasing thresholds, all of them > 0, and as many level names as
\* thresholds.
C20_StationInvariant ==
  (call.fn = "load_settings" /\ call.done /\ call.station.ok) =>
    LET q == call.station.thresholds_cm IN
    /\ StrictlyAscending(q)
    /\ \A i \in 1..Len(q) : q[i] > 0
    /\ Len(call.station.level_names) = Len(q)

\* a station loaded from an unsorted thresholds_cm list with its own level
\* names, under a single global threshold
C20_Witness ==
  /\ call.fn = "load_settings"
  /\ call.done
  /\ call.station.ok
  /\ call.key = "thresholds_cm"
  /\ call.raw = <<3, 1, 2>>
  /\ call.names = 3
  /\ call.fallback = <<2>>
  /\ call.station.thresholds_cm = <<1, 2, 3>>

\* the threshold list a station entry gives
GivenThresholds ==
  IF call.key = "threshold1_cm" THEN SelectSeq(call.raw, Positive) ELSE call.raw

\* C21 - configuration loading rejects every threshold list given in
\* non-ascending order, every zero-length threshold list and every level-name
\* list whose count differs from the number of thresholds.
C21_RejectsBadConfig ==
  ( /\ call.fn = "load_settings" /\ call.done
    /\ call.key \in {"thresholds_cm", "threshold1_cm"}
    /\ \/ ~StrictlyAscending(GivenThresholds)
       \/ Len(GivenThresholds) = 0
       \/ call.names # NoRow /\ call.names # Len(GivenThresholds) )
  => ~call.station.ok

\* walking a disarmed threshold with below_since set, the value below it
RearmCase ==
  /\ pc = "threshold"
  /\ Value < Th
  /\ StoredDisarmed(con, <<st, th>>)
  /\ Truthy(con.state[key_below_since(st, th)])

C23_BelowNeverNotifies ==
  [][ (pc = "threshold" /\ Value < Th) =>
        /\ sends' = sends
        /\ IsArmed(con, st, th) =>
             /\ ~Truthy(con'.state[key_below_since(st, th)])
             /\ con'.state[key_armed(st, th)] = con.state[key_armed(st, th)] ]_vars

\* a threshold re-armed in an earlier cycle ("1" committed), read below in
\* this cycle: armed still "1", below_since empty, nothing sent
C23_Witness ==
  \E p \in Thresholds :
    /\ pc = "last_level" /\ st = p[1]
    /\ Value < thresholds_cm(p[1])[p[2]]
    /\ disk.state[key_armed(p[1], p[2])] = Str1
    /\ con.state[key_armed(p[1], p[2])] = Str1
    /\ con.state[key_below_since(p[1], p[2])] = EmptyStr
    /\ SendsFor(p) = {}

\* C24 - a step that evaluates a reading at or above threshold i leaves
\* below_since of i absent or empty; so a stored below_since is the timestamp
\* of the first reading of the running below streak (the first below reading
\* after the latest reading at or above the threshold), and a step that
\* re-arms i evaluates a reading stamped at least rearm_below_hours after it.
C24_AboveRestartsTimer ==
  /\ [][ (pc = "threshold" /\ Value >= Th) =>
            ~Truthy(con'.state[key_below_since(st, th)]) ]_vars
  /\ [](\A p \in Thresholds :
          Truthy(con.state[key_below_since(p[1], p[2])]) =>
            con.state[key_below_since(p[1], p[2])] = hist[p].lowStart)
  /\ [][ \A p \in Thresholds :
            (StoredDisarmed(con, p) /\ con'.state[key_armed(p[1], p[2])] = Str1) =>
              /\ hist[p].lowStart # NoRow
              /\ Dt - hist[p].lowStart >= rearm_below_hours ]_vars

\* a disarmed threshold whose below_since was cleared by a reading at or above
\* it (no below streak has reached rearm_below_hours yet) and is started anew,
\* from the timestamp of this cycle's below reading
C24_Witness ==
  \E p \in Thresholds :
    /\ pc = "last_level" /\ st = p[1]
    /\ StoredDisarmed(con, p)
    /\ ~hist[p].longLow
    /\ disk.state[key_below_since(p[1], p[2])] = EmptyStr
    /\ con.state[key_below_since(p[1], p[2])] = ts_iso
    /\ hist[p].lowStart = Dt

\* what a step did about notifying
Outcome ==
  IF sends' = sends THEN "none"
  ELSE IF sends'[Len(sends')].ok THEN "ok" ELSE "fail"

\* the state table holding the two entries of threshold (s, i) and nothing else
Isolated(db, s, i) ==
  [state |-> [k \in StateKeys |->
                IF k \in {key_armed(s, i), key_below_since(s, i)} THEN db.state[k] ELSE NoRow],
   measurements |-> {}]

\* C25 - Per-threshold independence.  The pass of the loop body over a
\* threshold makes of its armed flag and below_since, and of the notification,
\* what it would make of them with every other entry of the state table absent
\* and no measurement stored; it writes no entry of another threshold or
\* station, no measurement and nothing committed, and calls send_email for no
\* other threshold - whether the send returns or raises.
C25_ThresholdIndependence ==
  [][ pc = "threshold" =>
        /\ <<Own(con', st, th), Outcome>> \in Outcomes(Isolated(con, st, th))
        /\ \A k \in StateKeys \ {key_armed(st, th), key_below_since(st, th)} :
             con'.state[k] = con.state[k]
        /\ con'.measurements = con.measurements
        /\ disk' = disk
        /\ \/ sends' = sends
           \/ \E ok \in BOOLEAN : sends' = Append(sends, [station |-> st, idx |-> th, ok |-> ok]) ]_vars

\* the send for a threshold has just raised while a higher threshold of the
\* station is disarmed with its below timer running, as the cycle found it
C25_Witness ==
  \E p \in Thresholds, q \in Thresholds :
    /\ p[1] = q[1] /\ p[2] < q[2]
    /\ pc = "threshold" /\ st = p[1] /\ th = p[2] + 1
    /\ Len(sends) >= 1
    /\ sends[Len(sends)] = [station |-> p[1], idx |-> p[2], ok |-> FALSE]
    /\ StoredDisarmed(con, q)
    /\ Truthy(con.state[key_below_since(q[1], q[2])])
    /\ Own(con, q[1], q[2]) = Own(disk, q[1], q[2])

\* C26 - a send that raises leaves the measurement rows of the transaction
\* as they were, the row of the station's reading among them, records no
\* failure and hands over to the next threshold of the station (to the write
\* of last_level after the last); the station loop then moves on to the next
\* station with its feed entry untouched, and the commit of the cycle stores
\* the rows.
C26_SendFailureKeepsGoing ==
  /\ [][ \A p \in Thresholds : FailsToSend(p) =>
            /\ con'.measurements = con.measurements
            /\ RowsAt(con', st, ts_iso) # {}
            /\ any_fail' = any_fail
            /\ st' = st /\ index_map' = index_map
            /\ IF th < Len(thresholds_cm(st))
               THEN pc' = "threshold" /\ th' = th + 1
               ELSE pc' = "last_level" ]_vars
  /\ [][ (pc = "last_level" /\ \E k \in SendsOf(st) : ~sends[k].ok) =>
            IF st < Len(stations)
            THEN pc' = "station" /\ st' = st + 1 /\ index_map'[st + 1] = index_map[st + 1]
            ELSE pc' = "commit" ]_vars
  /\ [][ (pc = "commit" /\ \E k \in 1..Len(sends) : ~sends[k].ok) =>
            \A r \in con.measurements : Instant(r.ts) >= now => r \in disk'.measurements ]_vars

\* the send for the first station raised, the second station was evaluated
\* and notified, and the rows of both are in the transaction to be committed
C26_Witness ==
  /\ pc = "commit"
  /\ Len(stations) = 2
  /\ sends = << [station |-> 1, idx |-> 1, ok |-> FALSE],
                [station |-> 2, idx |-> 1, ok |-> TRUE] >>
  /\ RowsOf(con, 1) # {} /\ RowsOf(con, 2) # {}
  /\ ~any_fail

\* C27 - the write of last_level stores the number of thresholds of the
\* station that the cycle's value has reached; it is entered only from the
\* pass over the last threshold of the station, last_level changes in no other
\* step, and the commit of the cycle stores it.
C27_LastLevel ==
  /\ [][ pc = "last_level" =>
            con'.state[key_last_level(st)] =
              Cardinality({i \in ThIdx(st) : thresholds_cm(st)[i] <= Value}) ]_vars
  /\ [][ pc' = "last_level" =>
            /\ pc = "threshold"
            /\ th = Len(thresholds_cm(st))
            /\ st' = st /\ index_map' = index_map ]_vars
  /\ [][ \A s \in StationIds :
            con'.state[key_last_level(s)] # con.state[key_last_level(s)] =>
              pc = "last_level" /\ s = st ]_vars
  /\ [][ pc = "commit" =>
            \A s \in StationIds :
              disk'.state[key_last_level(s)] = con.state[key_last_level(s)] ]_vars

\* a station stored at level 3 by an earlier cycle and at level 1 by this one
C27_Witness ==
  \E s \in StationIds :
    /\ pc = "commit"
    /\ disk.state[key_last_level(s)] = 3
    /\ con.state[key_last_level(s)] = 1

\* the state table with every last_level entry replaced by v
WithLastLevel(db, v) ==
  [db EXCEPT !.state = [k \in StateKeys |-> IF k[1] = "last_level" THEN v ELSE @[k]]]

Decision(a, b, below, dt) ==
  LET b2 == IF b \in {NoRow, EmptyStr} THEN b ELSE EmptyStr IN
  IF below
  THEN IF a = Str0
       THEN IF b \in {NoRow, EmptyStr} THEN {<<a, dt, "none">>}
            ELSE IF dt - b >= rearm_below_hours THEN {<<Str1, EmptyStr, "none">>}
            ELSE {<<a, b, "none">>}
       ELSE {<<a, b2, "none">>}
  ELSE IF a = Str0 THEN {<<a, b2, "none">>}
  ELSE IF a = NoRow /\ ~alert_on_start THEN {<<Str0, b2, "none">>}
  ELSE IF ~email_ok THEN {<<a, b2, "none">>}
  ELSE {<<Str0, b2, "ok">>, <<a, b2, "fail">>}

C30_LegacyRateLimit ==
  /\ [][ Len(legacy'.sends) > Len(legacy.sends) =>
            /\ legacy.pc = "station"
            /\ LegacyCur.kind = "ok"
            /\ LegacyCur.val >= LegacyTh
            /\ \/ legacy.state[LegacyKey] = NoRow
               \/ legacy.now - legacy.state[LegacyKey] >= legacy.min_alert_interval_minutes
            /\ legacy'.sends[Len(legacy'.sends)].key = LegacyKey ]_vars
  /\ [](\A a \in legacy.recorded, b \in legacy.recorded :
          (a[1] = b[1] /\ a[2] < b[2]) =>
            b[2] - a[2] >= legacy.min_alert_interval_minutes)

\* an interval of two cycles: an alert recorded in cycle 1, one held back in
\* cycle 2 and the next recorded in cycle 3, under one key
C30_Witness ==
  \E k \in LegacyKeys :
    /\ legacy.min_alert_interval_minutes = 2
    /\ {<<k, 1>>, <<k, 3>>} \subseteq legacy.recorded
    /\ <<k, 2>> \in legacy.limited
    /\ legacy.state[k] = 3

\* C31 - a send that raises in Multi_Pegel.py.  The step leaves every
\* last_alert_ts as it was, marks the cycle failed (exit status 1, and it
\* stays so to the end of the cycle), keeps the reading of the station in the
\* measurements and hands over to the next station with its feed entry
\* untouched (or ends the cycle after the last); the rate limit does not hold
\* back the station in the cycle after it, and a station read at or above its
\* threshold that the rate limit does not hold back gets a send_email call.
C31_LegacySendFailure ==
  /\ [][ ( /\ legacy.variant = "Multi_Pegel"
           /\ Len(legacy'.sends) > Len(legacy.sends)
           /\ ~legacy'.sends[Len(legacy'.sends)].ok ) =>
            /\ legacy'.state = legacy.state
            /\ LegacyExitStatus' = 1
            /\ <<legacy.st, LegacyCur.ts>> \in legacy'.measurements
            /\ \/ legacy'.state[LegacyKey] = NoRow
               \/ legacy.now + 1 - legacy'.state[LegacyKey] >= legacy.min_alert_interval_minutes
            /\ IF legacy.st < Len(LegacyStations(legacy.variant))
               THEN /\ legacy'.pc = "station" /\ legacy'.st = legacy.st + 1
                    /\ legacy'.index_map = legacy.index_map
               ELSE legacy'.pc = "idle" ]_vars
  /\ [][ ( /\ legacy.variant = "Multi_Pegel"
           /\ legacy.pc = "station"
           /\ \E k \in 1..Len(legacy.sends) : ~legacy.sends[k].ok ) =>
            LegacyExitStatus' = 1 ]_vars
  /\ [][ ( /\ legacy.variant = "Multi_Pegel"
           /\ legacy.pc = "station"
           /\ LegacyCur.kind = "ok"
           /\ LegacyCur.val >= LegacyTh
           /\ legacy.email_ok
           /\ \/ legacy.state[LegacyKey] = NoRow
              \/ legacy.now - legacy.state[LegacyKey] >= legacy.min_alert_interval_minutes ) =>
            Len(legacy'.sends) > Len(legacy.sends) ]_vars

\* Multi_Pegel.py, second cycle over: the send for the first station raised,
\* nothing has ever been recorded for it, the second station was evaluated and
\* notified after it, and the cycle counts as failed
C31_Witness ==
  /\ legacy.variant = "Multi_Pegel"
  /\ legacy.pc = "idle"
  /\ legacy.now = 2
  /\ legacy.sends = << [key |-> 1, ok |-> FALSE], [key |-> 2, ok |-> TRUE] >>
  /\ legacy.state[1] = NoRow
  /\ legacy.state[2] = 2
  /\ LegacyExitStatus = 1
  /\ \E r \in legacy.measurements : r[1] = 1

\* C32 - between cycles, for every threshold: a stored non-empty below_since
\* goes with the armed flag stored "0" and with a last successful evaluation
\* of the station (the one that wrote last_level) whose value was below the
\* threshold; an armed threshold carries no running below timer.
C32_BelowTimerInvariant ==
  pc = "idle" =>
    \A p \in Thresholds :
      Truthy(disk.state[key_below_since(p[1], p[2])]) =>
        /\ StoredDisarmed(disk, p)
        /\ disk.state[key_last_level(p[1])] # NoRow
        /\ disk.state[key_last_level(p[1])] < p[2]

\* C33 - when the thresholds of a station have all been walked, the e-mail
\* configuration is complete and no send of the station raised, every
\* threshold at or below the value is stored disarmed: it was so when the cycle
\* began, or it had no armed entry and was suppressed without a send
\* (alert_on_start off), or a notification for it was delivered in this cycle.
C33_ReachedThresholdsDisarmed ==
  (pc = "last_level" /\ email_ok /\ \A k \in SendsOf(st) : sends[k].ok) =>
    \A i \in ThIdx(st) :
      thresholds_cm(st)[i] <= Value =>
        /\ StoredDisarmed(con, <<st, i>>)
        /\ \/ StoredDisarmed(disk, <<st, i>>) /\ SendsFor(<<st, i>>) = {}
           \/ /\ disk.state[key_armed(st, i)] = NoRow /\ ~alert_on_start
              /\ SendsFor(<<st, i>>) = {}
           \/ Cardinality(SendsFor(<<st, i>>)) = 1

\* the value at or above the first two thresholds: the first was disarmed
\* before the cycle, the second has just been notified
C33_Witness ==
  /\ pc = "last_level" /\ email_ok
  /\ \A k \in SendsOf(st) : sends[k].ok
  /\ Len(thresholds_cm(st)) >= 2
  /\ Value >= thresholds_cm(st)[2]
  /\ StoredDisarmed(disk, <<st, 1>>)
  /\ SendsFor(<<st, 1>>) = {}
  /\ SendsFor(<<st, 2>>) # {}
  /\ StoredDisarmed(con, <<st, 2>>)

\* C34 - re-arming takes two below readings and never coincides with a
\* notification.  The pass over a disarmed threshold without a running
\* below_since, the value below it, stores the timestamp of the measurement as
\* below_since and leaves the threshold disarmed; a pass that re-arms a
\* threshold reads a value below it, finds below_since running from an earlier
\* below reading of the same streak and sends nothing; and a threshold
\* re-armed in the cycle under way has had no send_email call in it.
C34_RearmTakesTwoReadings ==
  /\ [][ pc = "threshold" =>
            /\ ( /\ StoredDisarmed(con, <<st, th>>)
                 /\ Value < Th
                 /\ ~Truthy(con.state[key_below_since(st, th)]) ) =>
                  /\ StoredDisarmed(con', <<st, th>>)
                  /\ con'.state[key_below_since(st, th)] = ts_iso
            /\ ( /\ StoredDisarmed(con, <<st, th>>)
                 /\ con'.state[key_armed(st, th)] = Str1 ) =>
                  /\ Value < Th
                  /\ Truthy(con.state[key_below_since(st, th)])
                  /\ hist[<<st, th>>].lowStart # NoRow
                  /\ sends' = sends ]_vars
  /\ [](\A p \in Thresholds :
          (StoredDisarmed(disk, p) /\ con.state[key_armed(p[1], p[2])] = Str1) =>
            SendsFor(p) = {})

\* a threshold disarmed when the cycle began and re-armed in it, by a below
\* reading later than the one that started the timer, with nothing sent
C34_Witness ==
  \E p \in Thresholds :
    /\ pc = "last_level" /\ st = p[1]
    /\ StoredDisarmed(disk, p)
    /\ Truthy(disk.state[key_below_since(p[1], p[2])])
    /\ con.state[key_armed(p[1], p[2])] = Str1
    /\ con.state[key_below_since(p[1], p[2])] = EmptyStr
    /\ hist[p].lowStart < Dt
    /\ sends = <<>>

\* C35 - with the e-mail configuration incomplete, the pass over a threshold
\* not stored disarmed and not subject to first-run suppression, the value at
\* or above it, calls send_email for nothing, leaves the armed entry as it was
\* and records no failure; no send_email call is ever made, and an armed entry
\* is stored "0" only by first-run suppression (never with alert_on_start on).
C35_NoEmailKeepsArmed ==
  /\ [][ ( /\ pc = "threshold" /\ ~email_ok /\ Value >= Th
           /\ ~StoredDisarmed(con, <<st, th>>)
           /\ ~(con.state[key_armed(st, th)] = NoRow /\ ~alert_on_start) ) =>
            /\ sends' = sends
            /\ con'.state[key_armed(st, th)] = con.state[key_armed(st, th)]
            /\ any_fail' = any_fail ]_vars
  /\ [](~email_ok => sends = <<>>)
  /\ [][ ~email_ok =>
            \A p \in Thresholds :
              (~StoredDisarmed(con, p) /\ StoredDisarmed(con', p)) =>
                /\ con.state[key_armed(p[1], p[2])] = NoRow
                /\ ~alert_on_start ]_vars

\* two cycles running at or above a threshold, e-mail configuration
\* incomplete, alert_on_start on: still no armed entry, no failure recorded
C35_Witness ==
  \E p \in Thresholds :
    /\ pc = "last_level" /\ st = p[1]
    /\ ~email_ok /\ alert_on_start
    /\ hist[p].hiLen = 2
    /\ con.state[key_armed(p[1], p[2])] = NoRow
    /\ ~any_fail

\* C36 - a send failure is no station failure.  The exit status of the cycle
\* under way turns 1 only in a step in which the feed lookup of a station
\* fails; so a cycle in which every lookup succeeds returns 0, whatever
\* happens to its sends.
C36_OnlyLookupFails ==
  [][ (ExitStatus = 0 /\ ExitStatus' = 1) =>
        (pc = "station" /\ Cur.kind # "ok") ]_vars

\* C37 - order and extent of the notifications of a station.  At any point
\* of the walk over the thresholds of a station, and at its end, the
\* send_email calls made for the station in the cycle are in ascending order
\* of the threshold index, one per threshold, and the thresholds they were
\* made for are exactly those passed so far that lie within the computed
\* level, were not stored disarmed when the cycle began and were not subject
\* to first-run suppression (no armed entry, alert_on_start off) - none at all
\* with the e-mail configuration incomplete.
C37_AttemptedInOrder ==
  pc \in {"threshold", "last_level"} =>
    LET done == IF pc = "threshold" THEN th - 1 ELSE Len(thresholds_cm(st))
        level == _compute_level(Value, thresholds_cm(st))
        mine == SelectSeq(sends, LAMBDA e : e.station = st)
        due == {i \in 1..done :
                  /\ i <= level
                  /\ email_ok
                  /\ disk.state[key_armed(st, i)] # Str0
                  /\ ~(disk.state[key_armed(st, i)] = NoRow /\ ~alert_on_start)}
    IN /\ {mine[k].idx : k \in 1..Len(mine)} = due
       /\ \A j \in 1..Len(mine), k \in 1..Len(mine) : j < k => mine[j].idx < mine[k].idx

\* the value at or above all three thresholds, the second stored disarmed
\* when the cycle began: send_email called for the first, then for the third
C37_Witness ==
  /\ pc = "last_level"
  /\ Len(thresholds_cm(st)) = 3
  /\ _compute_level(Value, thresholds_cm(st)) = 3
  /\ StoredDisarmed(disk, <<st, 2>>)
  /\ Len(sends) = 2
  /\ sends[1].idx = 1 /\ sends[2].idx = 3

====
